---- MODULE Spec2Model ----
(***************************************************************************)
(* Model of the interactive session of tts.py: the settings document, the  *)
(* sentence list read from data.txt, the cursor, the audio artifacts and   *)
(* the key-dispatch loop of main().                                        *)
(***************************************************************************)
EXTENDS Integers, Sequences, FiniteSets, TLC

(***************************************************************************)
(* Bounds of the model.                                                    *)
(***************************************************************************)
\* largest number of sentences a data.txt of the model holds
MaxSentences == 3
\* largest persisted position found on disk at startup
MaxPos == 4
\* most negative persisted position found on disk at startup is -MaxNeg
MaxNeg == 2
\* longest text over SegAlphabet given to the segmenter
MaxLen == 4

(***************************************************************************)
(* Characters.  A text is a sequence of one-character strings.             *)
(***************************************************************************)
UpperCase ==
    {"A", "B", "C", "D", "E", "F", "G", "H", "I", "J", "K", "L", "M",
     "N", "O", "P", "Q", "R", "S", "T", "U", "V", "W", "X", "Y", "Z"}

Terminal == {".", "!", "?"}

WhiteSpace == {" ", "\n", "\t"}

(***************************************************************************)
(* read_sentences: re.findall(r'(?<![A-Z]\.)[^.!?]+(?:[.!?](?=\s|$))?')    *)
(* followed by strip() and the removal of empty strings.                   *)
(***************************************************************************)
\* (?<![A-Z]\.) at position p (1-based): the two characters before p are
\* not an upper-case letter followed by a period
LookBehindOk(s, p) ==
    ~(p >= 3 /\ s[p - 2] \in UpperCase /\ s[p - 1] = ".")

\* [^.!?]+ is greedy: the first position >= p holding a terminal mark, or
\* Len(s) + 1 when there is none
RECURSIVE RunEnd(_, _)
RunEnd(s, p) ==
    IF p > Len(s) \/ s[p] \in Terminal THEN p ELSE RunEnd(s, p + 1)

\* (?:[.!?](?=\s|$))? : the mark at q joins the match when whitespace or the
\* end of the text follows it; the result is the first position after the match
MatchEnd(s, p) ==
    LET q == RunEnd(s, p)
    IN  IF q <= Len(s) /\ (q = Len(s) \/ s[q + 1] \in WhiteSpace)
        THEN q + 1
        ELSE q

\* re.findall: leftmost non-overlapping matches, scanning from position p
RECURSIVE findall(_, _)
findall(s, p) ==
    IF p > Len(s) THEN <<>>
    ELSE IF s[p] \notin Terminal /\ LookBehindOk(s, p)
         THEN <<SubSeq(s, p, MatchEnd(s, p) - 1)>> \o findall(s, MatchEnd(s, p))
         ELSE findall(s, p + 1)

RECURSIVE lstrip(_)
lstrip(s) ==
    IF s # <<>> /\ Head(s) \in WhiteSpace THEN lstrip(Tail(s)) ELSE s

RECURSIVE rstrip(_)
rstrip(s) ==
    IF s # <<>> /\ s[Len(s)] \in WhiteSpace
    THEN rstrip(SubSeq(s, 1, Len(s) - 1))
    ELSE s

strip(s) == rstrip(lstrip(s))

NonBlank(s) == strip(s) # <<>>

\* sentences = [s.strip() for s in sentences if s.strip()]
segment(content) ==
    LET found == SelectSeq(findall(content, 1), NonBlank)
    IN  [i \in 1..Len(found) |-> strip(found[i])]

\* the positions of content at which a match of findall ends with its
\* terminal mark, scanning from position p
RECURSIVE boundaries(_, _)
boundaries(s, p) ==
    IF p > Len(s) THEN {}
    ELSE IF s[p] \notin Terminal /\ LookBehindOk(s, p)
         THEN (IF MatchEnd(s, p) > RunEnd(s, p) THEN {RunEnd(s, p)} ELSE {})
              \cup boundaries(s, MatchEnd(s, p))
         ELSE boundaries(s, p + 1)

\* ' '.join(list)
RECURSIVE join(_)
join(list) ==
    IF list = <<>> THEN <<>>
    ELSE IF Len(list) = 1 THEN list[1]
    ELSE list[1] \o <<" ">> \o join(Tail(list))

(***************************************************************************)
(* f"{n:03d}": decimal digits, zero-padded to a width of three characters; *)
(* the sign of a negative number counts in the width.                      *)
(***************************************************************************)
DigitChar(d) ==
    CASE d = 0 -> "0" [] d = 1 -> "1" [] d = 2 -> "2" [] d = 3 -> "3"
      [] d = 4 -> "4" [] d = 5 -> "5" [] d = 6 -> "6" [] d = 7 -> "7"
      [] d = 8 -> "8" [] d = 9 -> "9"

RECURSIVE Digits(_)
Digits(n) ==
    IF n < 10 THEN <<DigitChar(n)>>
    ELSE Digits(n \div 10) \o <<DigitChar(n % 10)>>

RECURSIVE ZeroPad(_, _)
ZeroPad(ds, width) ==
    IF Len(ds) >= width THEN ds ELSE ZeroPad(<<"0">> \o ds, width)

Fmt03d(n) ==
    IF n >= 0 THEN ZeroPad(Digits(n), 3)
    ELSE <<"-">> \o ZeroPad(Digits(0 - n), 2)

\* mutant of filename: the file is numbered from 0
filename_zero_based(sentence_index) ==
    Fmt03d(sentence_index) \o <<".", "w", "a", "v">>

\* filename = f"{sentence_index + 1:03d}.wav"
filename(sentence_index) ==
    Fmt03d(sentence_index + 1) \o <<".", "w", "a", "v">>

(***************************************************************************)
(* The settings document: a JSON object, modelled as a function from field *)
(* names to values.                                                        *)
(***************************************************************************)
CANON == "last_processed_sentence"

LEGACY == "last_processed_paragraph"

EmptyDoc == [k \in {} |-> 0]

Put(d, k, v) == [x \in (DOMAIN d) \cup {k} |-> IF x = k THEN v ELSE d[x]]

Pop(d, k) == [x \in (DOMAIN d) \ {k} |-> d[x]]

\* settings.get(k, default)
Get(d, k, default) == IF k \in DOMAIN d THEN d[k] ELSE default

\* mutant of save_settings: only the position is written
save_settings_position_only(s) ==
    [state |-> "ok", doc |-> Put(EmptyDoc, CANON, Get(s, CANON, 0))]

\* save_settings: json.dump(settings) over settings.json
save_settings(s) == [state |-> "ok", doc |-> s]

\* mutant of load_settings: the legacy field is copied and not popped
load_settings_keeps_legacy(file) ==
    IF file.state = "ok"
    THEN IF LEGACY \in DOMAIN file.doc /\ CANON \notin DOMAIN file.doc
         THEN LET migrated == Put(file.doc, CANON, file.doc[LEGACY])
              IN  [settings |-> migrated, file |-> save_settings(migrated)]
         ELSE [settings |-> file.doc, file |-> file]
    ELSE LET default == Put(EmptyDoc, CANON, 0)
         IN  [settings |-> default, file |-> save_settings(default)]

\* mutant of load_settings: the default settings are not saved
load_settings_default_unsaved(file) ==
    IF file.state = "ok"
    THEN IF LEGACY \in DOMAIN file.doc /\ CANON \notin DOMAIN file.doc
         THEN LET migrated == Put(Pop(file.doc, LEGACY), CANON, file.doc[LEGACY])
              IN  [settings |-> migrated, file |-> save_settings(migrated)]
         ELSE [settings |-> file.doc, file |-> file]
    ELSE [settings |-> Put(EmptyDoc, CANON, 0), file |-> file]

\* load_settings: the settings it leaves in memory and the file it leaves on
\* disk; a missing file raises FileNotFoundError, an empty or corrupt one
\* json.JSONDecodeError, an unreadable one IOError
load_settings(file) ==
    IF file.state = "ok"
    THEN IF LEGACY \in DOMAIN file.doc /\ CANON \notin DOMAIN file.doc
         THEN LET migrated == Put(Pop(file.doc, LEGACY), CANON, file.doc[LEGACY])
              IN  [settings |-> migrated, file |-> save_settings(migrated)]
         ELSE [settings |-> file.doc, file |-> file]
    ELSE LET default == Put(EmptyDoc, CANON, 0)
         IN  [settings |-> default, file |-> save_settings(default)]

\* the position a startup reads from a settings file
PersistedPosition(file) ==
    Get(load_settings(file).settings, CANON, 0)

(***************************************************************************)
(* data.txt                                                                *)
(***************************************************************************)
RECURSIVE Text(_)
Text(n) == IF n = 0 THEN <<>> ELSE <<"a", ".", " ">> \o Text(n - 1)

AltText == <<"N", "o", "!", " ", "b", "?">>

OnlyMarks == <<".", ".", ".">>

DataFiles ==
    {[state |-> "missing", content |-> <<>>],
     [state |-> "unreadable", content |-> <<>>],
     [state |-> "ok", content |-> AltText],
     [state |-> "ok", content |-> OnlyMarks]}
    \cup {[state |-> "ok", content |-> Text(n)] : n \in 0..MaxSentences}

\* mutant of read_sentences: an empty list is returned where exit_script()
\* is called
read_sentences_returns_empty(f) ==
    IF f.state = "missing" THEN [exit |-> FALSE, status |-> "missing", list |-> <<>>]
    ELSE IF f.state = "unreadable"
    THEN [exit |-> FALSE, status |-> "unreadable", list |-> <<>>]
    ELSE IF segment(f.content) = <<>>
    THEN [exit |-> FALSE, status |-> "empty", list |-> <<>>]
    ELSE [exit |-> FALSE, status |-> "ok", list |-> segment(f.content)]

\* read_sentences: it returns a non-empty list or calls exit_script()
read_sentences(f) ==
    IF f.state = "missing" THEN [exit |-> TRUE, status |-> "missing", list |-> <<>>]
    ELSE IF f.state = "unreadable"
    THEN [exit |-> TRUE, status |-> "unreadable", list |-> <<>>]
    ELSE IF segment(f.content) = <<>>
    THEN [exit |-> TRUE, status |-> "empty", list |-> <<>>]
    ELSE [exit |-> FALSE, status |-> "ok", list |-> segment(f.content)]

\* sentences[i] of Python: a negative index counts from the end
InPyRange(list, i) == 0 - Len(list) <= i /\ i < Len(list)

PyIndex(list, i) == IF i >= 0 THEN list[i + 1] ELSE list[Len(list) + i + 1]

(***************************************************************************)
(* The cursor after a (re)load.                                            *)
(***************************************************************************)
\* initial load and the reload of the empty-list branch
clamp_index(index, n) ==
    IF index >= n THEN (IF n > 0 THEN n - 1 ELSE 0) ELSE index

\* mutant of reload_index: the clamp forgets the - 1
reload_index_no_minus(old, new_total) ==
    IF old < new_total THEN old ELSE new_total

\* the reload of the normal branch
reload_index(old_index, new_total_sentences) ==
    IF old_index < new_total_sentences THEN old_index
    ELSE IF new_total_sentences > 0 THEN new_total_sentences - 1
    ELSE 0

\* os.path.exists(os.path.join(AUDIO_DIR, f"{current_sentence_index + 1:03d}.wav"))
displayname(index) ==
    Fmt03d(index + 1) \o <<".", "w", "a", "v">>

(***************************************************************************)
(* State                                                                   *)
(***************************************************************************)
VARIABLES
    pc,                       \* position of the process
    exitStatus,               \* how the process ended
    settings,                 \* the global settings dict
    settingsFile,             \* settings.json
    sentences,                \* main's sentences
    current_sentence_index,   \* main's cursor
    sentence_audio_exists,    \* main's recorded marker
    audioFiles,               \* names of the files in texts/audio
    access_token,             \* the global access token
    ffmpeg_error_printed,     \* the global _ffmpeg_error_printed
    cmd,                      \* the last key read, "int" for Ctrl+C
    readStatus,               \* outcome of the last read_sentences
    synthResult,              \* outcome of the last synthesis request
    written,                  \* the file written by the current record
    playArg,                  \* the file the player was started on
    persistedBefore,          \* persisted position when the last key was read
    old_index,                \* the cursor when the last key was read
    old_sentences,            \* the sentences when the last key was read
    afterResume,              \* no key was read since the error prompt
    fileAtStart,              \* settings.json as load_settings found it
    audioBefore,              \* texts/audio when the last key was read
    recorded,                 \* the indices save_audio has written
    playResult,               \* outcome of the last run of the player
    printed,                  \* what the last play_audio printed
    reportedInSession,        \* play_audio printed an error in this run
    reportsSinceReload,       \* errors play_audio printed since the reload
    calls,                    \* calls made for the last record key
    text,                     \* the text given to the segmenter
    segments                  \* what the segmenter made of it

vars ==
    <<pc, exitStatus, settings, settingsFile, sentences,
      current_sentence_index, sentence_audio_exists, audioFiles,
      access_token, ffmpeg_error_printed, cmd, readStatus, synthResult,
      written, playArg, persistedBefore, old_index, old_sentences,
      afterResume, fileAtStart, audioBefore, recorded, playResult, printed,
      reportedInSession, reportsSinceReload, calls, text, segments>>

\* the variables of the segmenter's own specification
segVars == <<text, segments>>

\* no call of get_credentials, requests.post or credentials.refresh yet
NoCalls == [get_credentials |-> 0, post |-> 0, refresh |-> 0]

\* what Display forgets of the settings file the run started with
Forgotten == [state |-> "forgotten", doc |-> EmptyDoc]

NoFile == <<>>

Positions == (0 - MaxNeg)..MaxPos

InitialSettingsFiles ==
    {[state |-> "absent", doc |-> EmptyDoc],
     [state |-> "corrupt", doc |-> EmptyDoc],
     [state |-> "unreadable", doc |-> EmptyDoc],
     [state |-> "empty", doc |-> EmptyDoc],
     [state |-> "ok", doc |-> EmptyDoc],
     [state |-> "ok", doc |-> [last_processed_paragraph |-> 2]],
     [state |-> "ok", doc |-> [last_processed_paragraph |-> 2, voice |-> 1]],
     [state |-> "ok", doc |-> [last_processed_paragraph |-> 2,
                               last_processed_sentence |-> 1]],
     [state |-> "ok", doc |-> [last_processed_sentence |-> 1, voice |-> 1]]}
    \cup {[state |-> "ok", doc |-> Put(EmptyDoc, CANON, p)] : p \in Positions}

Init ==
    /\ pc = "start"
    /\ exitStatus = "running"
    /\ settings = EmptyDoc
    /\ settingsFile \in InitialSettingsFiles
    /\ sentences = <<>>
    /\ current_sentence_index = 0
    /\ sentence_audio_exists = FALSE
    /\ audioFiles = {}
    /\ access_token = "none"
    /\ ffmpeg_error_printed = FALSE
    /\ cmd = "none"
    /\ readStatus = "none"
    /\ synthResult = "none"
    /\ written = NoFile
    /\ playArg = NoFile
    /\ persistedBefore = PersistedPosition(settingsFile)
    /\ old_index = 0
    /\ old_sentences = <<>>
    /\ afterResume = FALSE
    /\ fileAtStart = settingsFile
    /\ audioBefore = {}
    /\ recorded = {}
    /\ playResult = "none"
    /\ printed = "none"
    /\ reportedInSession = FALSE
    /\ reportsSinceReload = 0
    /\ calls = NoCalls
    /\ text = <<>>
    /\ segments = <<>>

(***************************************************************************)
(* Keys.  _getch().lower() is what the loop compares.                      *)
(***************************************************************************)
Keys == {"l", "L", "j", "J", " ", "r", "R", "q", "Q", "x", "X"}

lower(key) ==
    CASE key = "L" -> "l" [] key = "J" -> "j" [] key = "R" -> "r"
      [] key = "Q" -> "q" [] key = "X" -> "x" [] OTHER -> key

\* outcomes of requests.post and of the decoding of its response
SynthOutcomes ==
    {"ok", "no_content", "http401", "http403", "http500", "connection",
     "timeout", "request", "json", "other"}

\* outcomes of subprocess.run on the player
PlayOutcomes == {"ok", "FileNotFoundError", "CalledProcessError", "Exception"}

\* a key was read by the loop: what the history variables remember of it
KeyRead(k) ==
    /\ cmd' = k
    /\ persistedBefore' = PersistedPosition(settingsFile)
    /\ old_index' = current_sentence_index
    /\ old_sentences' = sentences
    /\ afterResume' = FALSE

\* mutant of exit_settings: the saved position never goes down
exit_settings_never_lower(current_index) ==
    IF current_index < Get(settings, CANON, 0) THEN settings
    ELSE Put(settings, CANON, current_index)

\* exit_script(save_position=True, current_index): the settings it saves
exit_settings(current_index) == Put(settings, CANON, current_index)

(***************************************************************************)
(* Startup: main() up to the interactive loop                              *)
(***************************************************************************)
\* --help: print the readme and sys.exit(0)
Help ==
    /\ pc = "start"
    /\ pc' = "exited"
    /\ exitStatus' = "0"
    /\ UNCHANGED <<settings, settingsFile, sentences, current_sentence_index,
                   sentence_audio_exists, audioFiles, access_token,
                   ffmpeg_error_printed, cmd, readStatus, synthResult,
                   written, playArg, persistedBefore, old_index,
                   old_sentences, afterResume>>
    /\ UNCHANGED <<fileAtStart, audioBefore, recorded, playResult, printed,
                   reportedInSession, reportsSinceReload, segVars, calls>>

\* load_settings()
LoadSettings ==
    /\ pc = "start"
    /\ pc' = "creds"
    /\ settings' = load_settings(settingsFile).settings
    /\ settingsFile' = load_settings(settingsFile).file
    /\ UNCHANGED <<exitStatus, sentences, current_sentence_index,
                   sentence_audio_exists, audioFiles, access_token,
                   ffmpeg_error_printed, cmd, readStatus, synthResult,
                   written, playArg, persistedBefore, old_index,
                   old_sentences, afterResume, fileAtStart, audioBefore,
                   recorded, playResult, printed, reportedInSession,
                   reportsSinceReload, segVars, calls>>

\* mutant of clamp_saves: the adjusted index is not saved
clamp_never_saves(index, n) == FALSE

\* if current_sentence_index >= len(sentences): ... save_settings()
clamp_saves(index, n) == index >= n

\* get_credentials(), the initial read_sentences() and the adjustment of the
\* index
Startup ==
    /\ pc = "creds"
    /\ \E credOk \in BOOLEAN, f \in DataFiles :
         LET index == Get(settings, CANON, 0)
             read == read_sentences(f)
             n == Len(read.list)
             adjusted == Put(settings, CANON, clamp_index(index, n))
         IN  IF ~credOk
             THEN /\ pc' = "exited"
                  /\ exitStatus' = "0"
                  /\ UNCHANGED <<settings, settingsFile, sentences,
                                 current_sentence_index, access_token,
                                 readStatus>>
             ELSE IF read.exit
             THEN /\ pc' = "exited"
                  /\ exitStatus' = "0"
                  /\ access_token' = "token"
                  /\ current_sentence_index' = index
                  /\ readStatus' = read.status
                  /\ UNCHANGED <<settings, settingsFile, sentences>>
             ELSE /\ pc' = "sleep"
                  /\ exitStatus' = exitStatus
                  /\ access_token' = "token"
                  /\ readStatus' = read.status
                  /\ sentences' = read.list
                  /\ current_sentence_index' = clamp_index(index, n)
                  /\ settings' = IF clamp_saves(index, n) THEN adjusted
                                  ELSE settings
                  /\ settingsFile' = IF clamp_saves(index, n)
                                     THEN save_settings(adjusted)
                                     ELSE settingsFile
    /\ UNCHANGED <<sentence_audio_exists, audioFiles, ffmpeg_error_printed,
                   cmd, synthResult, written, playArg, persistedBefore,
                   old_index, old_sentences, afterResume>>
    /\ UNCHANGED <<fileAtStart, audioBefore, recorded, playResult, printed,
                   reportedInSession, reportsSinceReload, segVars, calls>>

\* time.sleep(1); clear_console(); while True:
BeginLoop ==
    /\ pc = "sleep"
    /\ pc' = "top"
    /\ UNCHANGED <<exitStatus, settings, settingsFile, sentences,
                   current_sentence_index, sentence_audio_exists, audioFiles,
                   access_token, ffmpeg_error_printed, cmd, readStatus,
                   synthResult, written, playArg, persistedBefore,
                   old_index, old_sentences, afterResume>>
    /\ UNCHANGED <<fileAtStart, audioBefore, recorded, playResult, printed,
                   reportedInSession, reportsSinceReload, segVars, calls>>

\* mutant of Display: the recorded marker is kept from the last display
DisplayCached ==
    /\ pc = "top"
    /\ sentence_audio_exists' = sentence_audio_exists
    /\ IF sentences = <<>> \/ InPyRange(sentences, current_sentence_index)
       THEN /\ pc' = "key"
            /\ afterResume' = FALSE
       ELSE /\ pc' = "error"
            /\ afterResume' = afterResume
    /\ cmd' = "none"
    /\ readStatus' = "none"
    /\ synthResult' = "none"
    /\ written' = NoFile
    /\ playArg' = NoFile
    /\ persistedBefore' = PersistedPosition(settingsFile)
    /\ old_index' = current_sentence_index
    /\ old_sentences' = sentences
    /\ UNCHANGED <<exitStatus, settings, settingsFile, sentences,
                   current_sentence_index, audioFiles, access_token,
                   ffmpeg_error_printed>>
    /\ fileAtStart' = Forgotten
    /\ audioBefore' = audioFiles
    /\ playResult' = "none"
    /\ printed' = "none"
    /\ UNCHANGED <<recorded, reportedInSession, reportsSinceReload, segVars>>
    /\ calls' = NoCalls

(***************************************************************************)
(* The interactive loop                                                    *)
(***************************************************************************)
\* head of an iteration up to the _getch(): the recorded marker is computed,
\* then the empty-list message or the sentence at the cursor is displayed;
\* sentences[current_index] raises IndexError outside -len..len-1.
\* The history of the previous iteration is forgotten here.
Display ==
    /\ pc = "top"
    /\ sentence_audio_exists' = (displayname(current_sentence_index) \in audioFiles)
    /\ IF sentences = <<>> \/ InPyRange(sentences, current_sentence_index)
       THEN /\ pc' = "key"
            /\ afterResume' = FALSE
       ELSE /\ pc' = "error"
            /\ afterResume' = afterResume
    /\ cmd' = "none"
    /\ readStatus' = "none"
    /\ synthResult' = "none"
    /\ written' = NoFile
    /\ playArg' = NoFile
    /\ persistedBefore' = PersistedPosition(settingsFile)
    /\ old_index' = current_sentence_index
    /\ old_sentences' = sentences
    /\ UNCHANGED <<exitStatus, settings, settingsFile, sentences,
                   current_sentence_index, audioFiles, access_token,
                   ffmpeg_error_printed>>
    /\ fileAtStart' = Forgotten
    /\ audioBefore' = audioFiles
    /\ playResult' = "none"
    /\ printed' = "none"
    /\ UNCHANGED <<recorded, reportedInSession, reportsSinceReload, segVars>>
    /\ calls' = NoCalls

\* mutant of can_move_next: the last index is not excluded
can_move_next_past_end(index, n) == index < n

\* if current_sentence_index < len(sentences) - 1
can_move_next(index, n) == index < n - 1

\* if current_sentence_index > 0
can_move_prev(index) == index > 0

\* mutant of KeyNext: the move forward is not saved
KeyNextUnsaved ==
    /\ pc = "key"
    /\ sentences # <<>>
    /\ \E key \in Keys : lower(key) = "l"
    /\ KeyRead("l")
    /\ IF can_move_next(current_sentence_index, Len(sentences))
       THEN /\ current_sentence_index' = current_sentence_index + 1
            /\ UNCHANGED <<settings, settingsFile>>
       ELSE UNCHANGED <<current_sentence_index, settings, settingsFile>>
    /\ pc' = "top"
    /\ UNCHANGED <<exitStatus, sentences, sentence_audio_exists, audioFiles,
                   access_token, ffmpeg_error_printed, readStatus,
                   synthResult, written, playArg>>
    /\ UNCHANGED <<fileAtStart, audioBefore, recorded, playResult, printed,
                   reportedInSession, reportsSinceReload, segVars, calls>>

\* key == 'l'
KeyNext ==
    /\ pc = "key"
    /\ sentences # <<>>
    /\ \E key \in Keys : lower(key) = "l"
    /\ KeyRead("l")
    /\ IF can_move_next(current_sentence_index, Len(sentences))
       THEN /\ current_sentence_index' = current_sentence_index + 1
            /\ settings' = Put(settings, CANON, current_sentence_index + 1)
            /\ settingsFile' =
                 save_settings(Put(settings, CANON, current_sentence_index + 1))
       ELSE UNCHANGED <<current_sentence_index, settings, settingsFile>>
    /\ pc' = "top"
    /\ UNCHANGED <<exitStatus, sentences, sentence_audio_exists, audioFiles,
                   access_token, ffmpeg_error_printed, readStatus,
                   synthResult, written, playArg>>
    /\ UNCHANGED <<fileAtStart, audioBefore, recorded, playResult, printed,
                   reportedInSession, reportsSinceReload, segVars, calls>>

\* mutant of KeyPrev: the move back is saved as the move forward is
KeyPrevSaves ==
    /\ pc = "key"
    /\ sentences # <<>>
    /\ \E key \in Keys : lower(key) = "j"
    /\ KeyRead("j")
    /\ IF can_move_prev(current_sentence_index)
       THEN /\ current_sentence_index' = current_sentence_index - 1
            /\ settings' = Put(settings, CANON, current_sentence_index - 1)
            /\ settingsFile' =
                 save_settings(Put(settings, CANON, current_sentence_index - 1))
       ELSE UNCHANGED <<current_sentence_index, settings, settingsFile>>
    /\ pc' = "top"
    /\ UNCHANGED <<exitStatus, sentences, sentence_audio_exists, audioFiles,
                   access_token, ffmpeg_error_printed, readStatus,
                   synthResult, written, playArg>>
    /\ UNCHANGED <<fileAtStart, audioBefore, recorded, playResult, printed,
                   reportedInSession, reportsSinceReload, segVars, calls>>

\* key == 'j'
KeyPrev ==
    /\ pc = "key"
    /\ sentences # <<>>
    /\ \E key \in Keys : lower(key) = "j"
    /\ KeyRead("j")
    /\ current_sentence_index' =
         IF can_move_prev(current_sentence_index)
         THEN current_sentence_index - 1
         ELSE current_sentence_index
    /\ pc' = "top"
    /\ UNCHANGED <<exitStatus, settings, settingsFile, sentences,
                   sentence_audio_exists, audioFiles, access_token,
                   ffmpeg_error_printed, readStatus, synthResult, written,
                   playArg>>
    /\ UNCHANGED <<fileAtStart, audioBefore, recorded, playResult, printed,
                   reportedInSession, reportsSinceReload, segVars, calls>>

\* mutant of refreshes: a 403 refreshes the token too
refreshes_on_403_too(outcome) ==
    IF outcome \in {"http401", "http403"} THEN 1 ELSE 0

\* the calls of credentials.refresh(Request()) in the except clauses of
\* synthesize_text: one under status 401, none elsewhere
refreshes(outcome) == IF outcome = "http401" THEN 1 ELSE 0

\* key == ' ': synthesize_text up to requests.post; without a token
\* get_credentials() is tried once
KeyRecord ==
    /\ pc = "key"
    /\ sentences # <<>>
    /\ \E key \in Keys : lower(key) = " "
    /\ KeyRead(" ")
    /\ written' = NoFile
    /\ playArg' = NoFile
    /\ IF access_token = "none"
       THEN \E credOk \in BOOLEAN :
              IF credOk
              THEN /\ access_token' = "token"
                   /\ synthResult' = "none"
                   /\ calls' = [calls EXCEPT !.get_credentials = @ + 1,
                                             !.post = @ + 1]
                   /\ pc' = "synth"
              ELSE /\ access_token' = access_token
                   /\ synthResult' = "no_credentials"
                   /\ calls' = [calls EXCEPT !.get_credentials = @ + 1]
                   /\ pc' = "top"
       ELSE /\ access_token' = access_token
            /\ synthResult' = "none"
            /\ calls' = [calls EXCEPT !.post = @ + 1]
            /\ pc' = "synth"
    /\ UNCHANGED <<exitStatus, settings, settingsFile, sentences,
                   current_sentence_index, sentence_audio_exists, audioFiles,
                   ffmpeg_error_printed, readStatus>>
    /\ UNCHANGED <<fileAtStart, audioBefore, recorded, playResult, printed,
                   reportedInSession, reportsSinceReload, segVars>>

\* mutant of audio_after_save: the audio directory is made anew
audio_after_save_fresh(files, name) == {name}

\* with open(filepath, 'wb') as f: f.write(audio_content)
audio_after_save(files, name) == files \cup {name}

\* the response of the synthesis request, then save_audio and the start of
\* play_audio on the path save_audio returned
SynthReturn ==
    /\ pc = "synth"
    /\ \E outcome \in SynthOutcomes :
         /\ synthResult' = outcome
         /\ calls' = [calls EXCEPT !.refresh = @ + refreshes(outcome)]
         /\ IF outcome = "ok"
            THEN \E saved \in {"ok", "makedirs raises", "IOError"} :
                   IF saved = "makedirs raises"
                   THEN \* not caught by save_audio: main's except Exception
                        /\ pc' = "error"
                        /\ UNCHANGED <<audioFiles, written, playArg, recorded>>
                   ELSE IF saved = "IOError"
                   THEN \* save_audio returns None
                        /\ pc' = "top"
                        /\ UNCHANGED <<audioFiles, written, playArg, recorded>>
                   ELSE /\ audioFiles' =
                             audio_after_save(audioFiles,
                                              filename(current_sentence_index))
                        /\ recorded' = recorded \cup {current_sentence_index}
                        /\ written' = filename(current_sentence_index)
                        /\ playArg' = filename(current_sentence_index)
                        /\ pc' = "play"
            ELSE IF refreshes(outcome) > 0
            THEN \* credentials.refresh(Request()) inside the except clause
                 \E refresh \in {"ok", "raises"} :
                   /\ pc' = IF refresh = "raises" THEN "error" ELSE "top"
                   /\ UNCHANGED <<audioFiles, written, playArg, recorded>>
            ELSE /\ pc' = "top"
                 /\ UNCHANGED <<audioFiles, written, playArg, recorded>>
    /\ UNCHANGED <<exitStatus, settings, settingsFile, sentences,
                   current_sentence_index, sentence_audio_exists,
                   access_token, ffmpeg_error_printed, cmd, readStatus,
                   persistedBefore, old_index, old_sentences, afterResume>>
    /\ UNCHANGED <<fileAtStart, audioBefore, playResult, printed,
                   reportedInSession, reportsSinceReload, segVars>>

\* mutant of should_print: every failure of the player is printed
should_print_always(flag, result) == result # "ok"

\* the except branches of play_audio: if not _ffmpeg_error_printed: print(...)
should_print(flag, result) == result # "ok" /\ ~flag

\* the player process ends; a failure is printed unless one was printed
PlayReturn ==
    /\ pc = "play"
    /\ \E result \in PlayOutcomes :
         /\ playResult' = result
         /\ IF should_print(ffmpeg_error_printed, result)
            THEN /\ ffmpeg_error_printed' = TRUE
                 /\ printed' = IF reportedInSession THEN "again" ELSE "first"
                 /\ reportedInSession' = TRUE
                 /\ reportsSinceReload' = reportsSinceReload + 1
            ELSE /\ printed' = "none"
                 /\ UNCHANGED <<ffmpeg_error_printed, reportedInSession,
                                reportsSinceReload>>
    /\ pc' = "top"
    /\ UNCHANGED <<exitStatus, settings, settingsFile, sentences,
                   current_sentence_index, sentence_audio_exists, audioFiles,
                   access_token, cmd, readStatus, synthResult, written,
                   playArg, persistedBefore, old_index, old_sentences,
                   afterResume, fileAtStart, audioBefore, recorded, segVars,
                   calls>>

\* mutant of flag_after_reload: the reload leaves the flag as it is
flag_after_reload_kept(flag) == flag

\* _ffmpeg_error_printed = False, the first statement of both reload branches
flag_after_reload(flag) == FALSE

\* key == 'r', in the normal branch and in the empty-list branch
KeyReload ==
    /\ pc = "key"
    /\ \E key \in Keys : lower(key) = "r"
    /\ KeyRead("r")
    /\ ffmpeg_error_printed' = flag_after_reload(ffmpeg_error_printed)
    /\ \E f \in DataFiles :
         LET read == read_sentences(f)
             n == Len(read.list)
         IN  /\ readStatus' = read.status
             /\ IF read.exit
                THEN /\ pc' = "exited"
                     /\ exitStatus' = "0"
                     /\ UNCHANGED <<sentences, current_sentence_index>>
                ELSE /\ pc' = "top"
                     /\ exitStatus' = exitStatus
                     /\ sentences' = read.list
                     /\ current_sentence_index' =
                          IF sentences = <<>>
                          THEN clamp_index(current_sentence_index, n)
                          ELSE reload_index(current_sentence_index, n)
    /\ UNCHANGED <<settings, settingsFile, sentence_audio_exists, audioFiles,
                   access_token, synthResult, written, playArg>>
    /\ reportsSinceReload' = 0
    /\ UNCHANGED <<fileAtStart, audioBefore, recorded, playResult, printed,
                   reportedInSession, segVars, calls>>

\* key == 'q', in the normal branch and in the empty-list branch
KeyQuit ==
    /\ pc = "key"
    /\ \E key \in Keys : lower(key) = "q"
    /\ KeyRead("q")
    /\ settings' = exit_settings(current_sentence_index)
    /\ settingsFile' = save_settings(exit_settings(current_sentence_index))
    /\ pc' = "exited"
    /\ exitStatus' = "0"
    /\ UNCHANGED <<sentences, current_sentence_index, sentence_audio_exists,
                   audioFiles, access_token, ffmpeg_error_printed,
                   readStatus, synthResult, written, playArg>>
    /\ UNCHANGED <<fileAtStart, audioBefore, recorded, playResult, printed,
                   reportedInSession, reportsSinceReload, segVars, calls>>

\* the keys no branch of the if/elif chain takes
IsBound(k) ==
    IF sentences = <<>> THEN k \in {"q", "r"}
    ELSE k \in {"l", "j", " ", "r", "q"}

KeyOther ==
    /\ pc = "key"
    /\ \E key \in Keys : ~IsBound(lower(key)) /\ KeyRead(lower(key))
    /\ pc' = "top"
    /\ UNCHANGED <<exitStatus, settings, settingsFile, sentences,
                   current_sentence_index, sentence_audio_exists, audioFiles,
                   access_token, ffmpeg_error_printed, readStatus,
                   synthResult, written, playArg>>
    /\ UNCHANGED <<fileAtStart, audioBefore, recorded, playResult, printed,
                   reportedInSession, reportsSinceReload, segVars, calls>>

\* mutant of KeyboardInterruptInLoop: exit_script(save_position=True, ...)
KeyboardInterruptSaves ==
    /\ pc \in {"key", "synth", "play"}
    /\ KeyRead("int")
    /\ settings' = exit_settings(current_sentence_index)
    /\ settingsFile' = save_settings(exit_settings(current_sentence_index))
    /\ pc' = "exited"
    /\ exitStatus' = "0"
    /\ UNCHANGED <<sentences, current_sentence_index, sentence_audio_exists,
                   audioFiles, access_token, ffmpeg_error_printed,
                   readStatus, synthResult, written, playArg>>
    /\ UNCHANGED <<fileAtStart, audioBefore, recorded, playResult, printed,
                   reportedInSession, reportsSinceReload, segVars, calls>>

\* Ctrl+C inside the try of the loop: exit_script(save_position=False)
KeyboardInterruptInLoop ==
    /\ pc \in {"key", "synth", "play"}
    /\ KeyRead("int")
    /\ pc' = "exited"
    /\ exitStatus' = "0"
    /\ UNCHANGED <<settings, settingsFile, sentences, current_sentence_index,
                   sentence_audio_exists, audioFiles, access_token,
                   ffmpeg_error_printed, readStatus, synthResult, written,
                   playArg>>
    /\ UNCHANGED <<fileAtStart, audioBefore, recorded, playResult, printed,
                   reportedInSession, reportsSinceReload, segVars, calls>>

\* Ctrl+C outside the try: while get_credentials waits, during the startup
\* sleep and at the prompt of the except Exception handler; the
\* KeyboardInterrupt is not caught
KeyboardInterruptUncaught ==
    /\ pc \in {"creds", "sleep", "error"}
    /\ KeyRead("int")
    /\ pc' = "exited"
    /\ exitStatus' = "KeyboardInterrupt"
    /\ UNCHANGED <<settings, settingsFile, sentences, current_sentence_index,
                   sentence_audio_exists, audioFiles, access_token,
                   ffmpeg_error_printed, readStatus, synthResult, written,
                   playArg>>
    /\ UNCHANGED <<fileAtStart, audioBefore, recorded, playResult, printed,
                   reportedInSession, reportsSinceReload, segVars, calls>>

\* except Exception: the prompt, answered by 'q'
ErrorQuit ==
    /\ pc = "error"
    /\ \E key \in Keys : lower(key) = "q"
    /\ KeyRead("q")
    /\ settings' = exit_settings(current_sentence_index)
    /\ settingsFile' = save_settings(exit_settings(current_sentence_index))
    /\ pc' = "exited"
    /\ exitStatus' = "0"
    /\ UNCHANGED <<sentences, current_sentence_index, sentence_audio_exists,
                   audioFiles, access_token, ffmpeg_error_printed,
                   readStatus, synthResult, written, playArg>>
    /\ UNCHANGED <<fileAtStart, audioBefore, recorded, playResult, printed,
                   reportedInSession, reportsSinceReload, segVars, calls>>

\* except Exception: the prompt, answered by another key; the loop goes on
ErrorContinue ==
    /\ pc = "error"
    /\ \E key \in Keys : lower(key) # "q"
    /\ cmd' = "continue"
    /\ persistedBefore' = PersistedPosition(settingsFile)
    /\ old_index' = current_sentence_index
    /\ old_sentences' = sentences
    /\ afterResume' = TRUE
    /\ pc' = "top"
    /\ UNCHANGED <<exitStatus, settings, settingsFile, sentences,
                   current_sentence_index, sentence_audio_exists, audioFiles,
                   access_token, ffmpeg_error_printed, readStatus,
                   synthResult, written, playArg>>
    /\ UNCHANGED <<fileAtStart, audioBefore, recorded, playResult, printed,
                   reportedInSession, reportsSinceReload, segVars, calls>>

\* _getch() under msvcrt: msvcrt.getch().decode('utf-8') raises
\* UnicodeDecodeError on a byte that is not UTF-8 (the first byte of an arrow
\* or function key).  In the try of the loop the except Exception clause
\* takes it; at the prompt of that clause nothing does.
GetchUndecodable ==
    /\ pc \in {"key", "error"}
    /\ KeyRead("undecodable")
    /\ pc' = IF pc = "key" THEN "error" ELSE "exited"
    /\ exitStatus' = IF pc = "key" THEN exitStatus ELSE "UnicodeDecodeError"
    /\ UNCHANGED <<settings, settingsFile, sentences, current_sentence_index,
                   sentence_audio_exists, audioFiles, access_token,
                   ffmpeg_error_printed, readStatus, synthResult, written,
                   playArg>>
    /\ UNCHANGED <<fileAtStart, audioBefore, recorded, playResult, printed,
                   reportedInSession, reportsSinceReload, segVars, calls>>

\* the operator starts the program again: the globals and main's locals are
\* new, settings.json and texts/audio are what the last run left
Restart ==
    /\ pc = "exited"
    /\ pc' = "start"
    /\ exitStatus' = "running"
    /\ settings' = EmptyDoc
    /\ sentences' = <<>>
    /\ current_sentence_index' = 0
    /\ sentence_audio_exists' = FALSE
    /\ access_token' = "none"
    /\ ffmpeg_error_printed' = FALSE
    /\ cmd' = "none"
    /\ readStatus' = "none"
    /\ synthResult' = "none"
    /\ written' = NoFile
    /\ playArg' = NoFile
    /\ persistedBefore' = PersistedPosition(settingsFile)
    /\ old_index' = 0
    /\ old_sentences' = <<>>
    /\ afterResume' = FALSE
    /\ UNCHANGED <<settingsFile, audioFiles>>
    /\ fileAtStart' = settingsFile
    /\ audioBefore' = audioFiles
    /\ playResult' = "none"
    /\ printed' = "none"
    /\ reportedInSession' = FALSE
    /\ reportsSinceReload' = 0
    /\ UNCHANGED <<recorded, segVars>>
    /\ calls' = NoCalls

Next ==
    \/ Help
    \/ LoadSettings
    \/ Startup
    \/ BeginLoop
    \/ Display
    \/ KeyNext
    \/ KeyPrev
    \/ KeyRecord
    \/ SynthReturn
    \/ PlayReturn
    \/ KeyReload
    \/ KeyQuit
    \/ KeyOther
    \/ GetchUndecodable
    \/ KeyboardInterruptInLoop
    \/ KeyboardInterruptUncaught
    \/ ErrorQuit
    \/ ErrorContinue
    \/ Restart

Spec == Init /\ [][Next]_vars

(***************************************************************************)
(* Properties                                                              *)
(***************************************************************************)
\* the position the next startup reads from settings.json
Position == PersistedPosition(settingsFile)

InRange(index, list) == 0 <= index /\ index < Len(list)

\* C1: a next or prev command read with a non-empty sentence list and a
\* cursor in 0..len-1 leaves the cursor in 0..len-1 (and the list as it was).
C1_NextPrevKeepCursorInRange ==
    (cmd \in {"l", "j"} /\ old_sentences # <<>>
        /\ InRange(old_index, old_sentences))
    => (sentences = old_sentences /\ InRange(current_sentence_index, sentences))

\* a next command read at the last index of a list of several sentences
C1_Witness ==
    /\ cmd = "l"
    /\ Len(old_sentences) > 1
    /\ old_index = Len(old_sentences) - 1
    /\ current_sentence_index = old_index

\* C2: whenever the sentence list is non-empty, the cursor is in 0..len-1
\* before the sentence at the cursor is displayed, whatever integer the
\* settings document held at startup.
C2_CursorInRangeWhenDisplayed ==
    (pc \in {"top", "key"} /\ sentences # <<>>)
    => InRange(current_sentence_index, sentences)

\* reconcile(c, oldN, newN) of the specification; oldN plays no part
reconcile(c, newN) ==
    IF newN = 0 THEN 0 ELSE IF c < newN THEN c ELSE newN - 1

\* C3: after the initial load the cursor is reconcile(persisted position,
\* count), and after a reload that read sentences it is reconcile(cursor
\* before the reload, new count); a reload at cursor 4 that finds three
\* sentences gives cursor 2.
C3_ReconciledCursor ==
    /\ pc = "sleep"
       => current_sentence_index = reconcile(persistedBefore, Len(sentences))
    /\ (cmd = "r" /\ readStatus = "ok")
       => current_sentence_index = reconcile(old_index, Len(sentences))
    /\ reload_index(4, 3) = 2

\* a reload at cursor 2 that finds two sentences puts the cursor at 1
C3_Witness ==
    /\ cmd = "r"
    /\ readStatus = "ok"
    /\ old_index = 2
    /\ Len(sentences) = 2
    /\ current_sentence_index = 1

\* C4: after a next command that moved the cursor, and after quit, the
\* persisted position is the cursor; a prev, record or reload command leaves
\* the persisted position as it was when the key was read.
C4_PositionWrittenByNextAndQuitOnly ==
    /\ (cmd = "l" /\ current_sentence_index # old_index)
       => Position = current_sentence_index
    /\ cmd = "q" => Position = current_sentence_index
    /\ cmd \in {"j", " ", "r"} => Position = persistedBefore

\* a prev command moved the cursor below the persisted position
C4_Witness ==
    /\ cmd = "j"
    /\ current_sentence_index < old_index
    /\ Position = persistedBefore
    /\ current_sentence_index < Position

\* C5: an accepted quit ends the process with the persisted position equal
\* to the cursor of the moment the key was read, also when that is lower than
\* the position persisted before.
C5_QuitPersistsCursor ==
    cmd = "q"
    => /\ pc = "exited"
       /\ current_sentence_index = old_index
       /\ Position = old_index

\* a quit that lowered the persisted position
C5_Witness ==
    /\ cmd = "q"
    /\ pc = "exited"
    /\ Position < persistedBefore

\* C6: Ctrl+C ends the process and the position the next startup reads is
\* the one that was persisted before it, whatever the cursor is.
C6_InterruptDoesNotPersist ==
    cmd = "int" => (pc = "exited" /\ Position = persistedBefore)

\* Ctrl+C in the loop with the cursor below the persisted position
C6_Witness ==
    /\ cmd = "int"
    /\ pc = "exited"
    /\ exitStatus = "0"
    /\ current_sentence_index < Position

\* C7: a reload that finds data.txt missing, unreadable, empty or without
\* sentences does not end the process: the session goes on with an empty
\* sentence list.
C7_FailedReloadKeepsSession ==
    (cmd = "r" /\ readStatus \in {"missing", "unreadable", "empty"})
    => (pc # "exited" /\ sentences = <<>>)

\* C8: the player runs only on the file the record command has just written,
\* the file numbered cursor + 1, and that file exists when the player starts.
C8_RecordWritesThenPlays ==
    /\ pc = "play"
       => /\ synthResult = "ok"
          /\ written =
               Fmt03d(current_sentence_index + 1) \o <<".", "w", "a", "v">>
          /\ playArg = written
    /\ written # NoFile => (synthResult = "ok" /\ written \in audioFiles)
    /\ playArg # NoFile => playArg = written

\* a record at index 2 wrote 003.wav and the player runs on it
C8_Witness ==
    /\ pc = "play"
    /\ cmd = " "
    /\ current_sentence_index = 2
    /\ written = <<"0", "0", "3", ".", "w", "a", "v">>
    /\ playArg = <<"0", "0", "3", ".", "w", "a", "v">>

SynthFailures == SynthOutcomes \ {"ok"}

\* C9: after any failure of the synthesis request the record command has
\* written nothing, started no player, left cursor, sentences and persisted
\* position alone, and the session is back at the head of the loop.
C9_SynthesisFailureStaysDisplaying ==
    synthResult \in SynthFailures
    => /\ pc = "top"
       /\ written = NoFile
       /\ playArg = NoFile
       /\ current_sentence_index = old_index
       /\ sentences = old_sentences
       /\ Position = persistedBefore

\* C10: at the error prompt 'q' persists the cursor and exits, another key
\* goes back to the head of the loop with cursor and sentences unchanged,
\* and no fault is raised again before the operator has given a command.
C10_ErrorRecoveryByOperatorChoice ==
    /\ cmd = "q" => (pc = "exited" /\ Position = current_sentence_index)
    /\ cmd = "continue"
       => /\ pc = "top"
          /\ current_sentence_index = old_index
          /\ sentences = old_sentences
    /\ ~(pc = "error" /\ afterResume)


NoDocument == {"absent", "empty", "corrupt"}

\* C12: when settings.json is absent, empty or unparsable, load_settings
\* yields position 0 and has at once written a document whose
\* last_processed_sentence is 0; a second load reads 0 from that document
\* and writes nothing, and the session starts at position 0.
C12_MissingSettingsSelfHeal ==
    (pc \in {"creds", "sleep"} /\ fileAtStart.state \in NoDocument) =>
        /\ CANON \in DOMAIN settings
        /\ settings[CANON] = 0
        /\ settingsFile.state = "ok"
        /\ CANON \in DOMAIN settingsFile.doc
        /\ settingsFile.doc[CANON] = 0
        /\ load_settings(settingsFile).file = settingsFile
        /\ PersistedPosition(settingsFile) = 0
        /\ (pc = "sleep" => current_sentence_index = 0)

\* an empty settings.json was loaded
C12_Witness ==
    /\ pc = "creds"
    /\ fileAtStart.state = "empty"
    /\ settingsFile = save_settings(Put(EmptyDoc, CANON, 0))

\* a parsed document with last_processed_paragraph and without
\* last_processed_sentence
LegacyOnly(file) ==
    /\ file.state = "ok"
    /\ LEGACY \in DOMAIN file.doc
    /\ CANON \notin DOMAIN file.doc

\* a parsed document with last_processed_sentence and without
\* last_processed_paragraph
CanonicalOnly(file) ==
    /\ file.state = "ok"
    /\ CANON \in DOMAIN file.doc
    /\ LEGACY \notin DOMAIN file.doc

\* right after the load of a legacy-only document: the legacy value is the
\* position, in memory and in the rewritten file, and the legacy field is gone
C13_AtLoad ==
    (pc = "creds" /\ LegacyOnly(fileAtStart)) =>
        /\ CanonicalOnly(settingsFile)
        /\ settingsFile.doc[CANON] = fileAtStart.doc[LEGACY]
        /\ settings = settingsFile.doc
        /\ PersistedPosition(fileAtStart) = fileAtStart.doc[LEGACY]

\* C13: loading a settings document with the legacy field and without the
\* canonical one yields the legacy value as the position and rewrites the
\* document with the canonical field of that value and no legacy field; no
\* later write of the document brings the legacy field back or drops the
\* canonical one.
C13_LegacyMigrated ==
    /\ []C13_AtLoad
    /\ [][CanonicalOnly(settingsFile) => CanonicalOnly(settingsFile')]_vars

\* a legacy-only settings.json was loaded and rewritten
C13_Witness ==
    /\ pc = "creds"
    /\ LegacyOnly(fileAtStart)
    /\ "voice" \in DOMAIN fileAtStart.doc
    /\ CanonicalOnly(settingsFile)

\* the fields of a document that are not its position: every field but
\* last_processed_sentence, and but last_processed_paragraph where that one
\* stands for the position
OtherFields(doc) ==
    DOMAIN doc \ ({CANON} \cup IF CANON \in DOMAIN doc THEN {} ELSE {LEGACY})

\* the two documents agree on the fields of the first that are not its
\* position
KeepsOtherFields(before, after) ==
    \A k \in OtherFields(before) : k \in DOMAIN after /\ after[k] = before[k]

\* C14: from a settings document that parsed, every write of the document
\* (migration of the legacy field, clamp at startup, next, quit) leaves each
\* field other than the position present with the value it had.
C14_WritesKeepOtherFields ==
    [][settingsFile.state = "ok" =>
          /\ settingsFile'.state = "ok"
          /\ KeepsOtherFields(settingsFile.doc, settingsFile'.doc)]_vars

\* next has written a new position into a document that has another field
C14_Witness ==
    /\ cmd = "l"
    /\ Position # persistedBefore
    /\ "voice" \in DOMAIN settingsFile.doc
    /\ settingsFile.doc["voice"] = 1

(***************************************************************************)
(* The segmenter on its own: read_sentences applied to bounded texts.      *)
(***************************************************************************)
\* a lower-case letter, an upper-case letter, two terminal marks and a blank
SegAlphabet == {"a", "A", ".", "?", " "}

\* "Hello world. Mr. Smith left. Are you OK?"
ScenarioA ==
    <<"H", "e", "l", "l", "o", " ", "w", "o", "r", "l", "d", ".", " ", "M",
      "r", ".", " ", "S", "m", "i", "t", "h", " ", "l", "e", "f", "t", ".",
      " ", "A", "r", "e", " ", "y", "o", "u", " ", "O", "K", "?">>

\* ["Hello world.", "Mr. Smith left.", "Are you OK?"]
ScenarioASentences ==
    <<SubSeq(ScenarioA, 1, 12), SubSeq(ScenarioA, 14, 28),
      SubSeq(ScenarioA, 30, 40)>>

Texts ==
    UNION {[1..n -> SegAlphabet] : n \in 0..MaxLen} \cup {ScenarioA}

InitSeg ==
    /\ pc = "read"
    /\ text \in Texts
    /\ segments = <<>>
    /\ exitStatus = "running"
    /\ settings = EmptyDoc
    /\ settingsFile = [state |-> "absent", doc |-> EmptyDoc]
    /\ sentences = <<>>
    /\ current_sentence_index = 0
    /\ sentence_audio_exists = FALSE
    /\ audioFiles = {}
    /\ access_token = "none"
    /\ ffmpeg_error_printed = FALSE
    /\ cmd = "none"
    /\ readStatus = "none"
    /\ synthResult = "none"
    /\ written = NoFile
    /\ playArg = NoFile
    /\ persistedBefore = 0
    /\ old_index = 0
    /\ old_sentences = <<>>
    /\ afterResume = FALSE
    /\ fileAtStart = settingsFile
    /\ audioBefore = {}
    /\ recorded = {}
    /\ playResult = "none"
    /\ printed = "none"
    /\ reportedInSession = FALSE
    /\ reportsSinceReload = 0
    /\ calls = NoCalls

\* the findall, strip and filter of read_sentences on the text
Segment ==
    /\ pc = "read"
    /\ pc' = "segmented"
    /\ segments' = segment(text)
    /\ UNCHANGED <<text, exitStatus, settings, settingsFile, sentences,
                   current_sentence_index, sentence_audio_exists, audioFiles,
                   access_token, ffmpeg_error_printed, cmd, readStatus,
                   synthResult, written, playArg, persistedBefore, old_index,
                   old_sentences, afterResume, fileAtStart, audioBefore,
                   recorded, playResult, printed, reportedInSession,
                   reportsSinceReload, calls>>

NextSeg == Segment

SpecSeg == InitSeg /\ [][NextSeg]_vars

\* C15: "Hello world. Mr. Smith left. Are you OK?" segments to exactly
\* "Hello world.", "Mr. Smith left.", "Are you OK?" in that order.
C15_ScenarioA ==
    (pc = "segmented" /\ text = ScenarioA) => segments = ScenarioASentences

\* C16: for every text with a non-empty segmentation, segmenting the
\* single-space join of its sentences yields the same number of sentences.
C16_RejoinKeepsCount ==
    (pc = "segmented" /\ segments # <<>>) =>
        Len(segment(join(segments))) = Len(segments)

\* a terminal mark at position q that whitespace or the end of text follows
Terminated(s, q) ==
    /\ s[q] \in Terminal
    /\ (q = Len(s) \/ s[q + 1] \in WhiteSpace)

\* a period at position q with an upper-case letter right before it
AfterUpperCase(s, q) ==
    s[q] = "." /\ q >= 2 /\ s[q - 1] \in UpperCase

\* C17: no sentence ends at a period that follows an upper-case letter and
\* is followed by whitespace, and every other terminal mark followed by
\* whitespace or the end of the text ends a sentence.
C17_BoundariesGuarded ==
    pc = "segmented" =>
        \A q \in 1..Len(text) :
            Terminated(text, q) =>
                IF AfterUpperCase(text, q)
                THEN q < Len(text) => q \notin boundaries(text, 1)
                ELSE q \in boundaries(text, 1)

\* name is n written as exactly three decimal digits, followed by ".wav"
ThreeDigitName(name, n) ==
    /\ n \in 0..999
    /\ name = <<DigitChar(n \div 100), DigitChar((n \div 10) % 10),
                DigitChar(n % 10), ".", "w", "a", "v">>

\* C18: for every cursor that occurs, the name checked at display and the
\* name written by record are both cursor + 1 as exactly three zero-padded
\* digits, and the two are the same name.
C18_ThreeDigitNames ==
    /\ pc = "key" =>
          /\ ThreeDigitName(displayname(current_sentence_index),
                            current_sentence_index + 1)
          /\ displayname(current_sentence_index)
               = filename(current_sentence_index)
    /\ written # NoFile =>
          /\ ThreeDigitName(written, old_index + 1)
          /\ written = displayname(old_index)

\* C19: the recorded marker is computed anew at every display: with the
\* cursor at i it is false while no record of index i has succeeded and true
\* from the first display after one has, whatever the marker was at the
\* position displayed before a move or a reload.
C19_MarkerRecomputed ==
    pc = "key" =>
        /\ sentence_audio_exists = (current_sentence_index \in recorded)
        /\ sentence_audio_exists
             = (displayname(current_sentence_index) \in audioFiles)

\* index 0 was recorded and the cursor has moved to the unrecorded index 1
C19_Witness ==
    /\ pc = "key"
    /\ 0 \in recorded
    /\ current_sentence_index = 1
    /\ 1 \notin recorded
    /\ ~sentence_audio_exists

\* C20: no step removes an audio file; a step that adds or rewrites one is
\* the save of a record command and touches only the file of the cursor's
\* index.
C20_AudioOnlyGrows ==
    [][/\ audioFiles \subseteq audioFiles'
       /\ audioFiles' \ audioFiles \subseteq {filename(current_sentence_index)}
       /\ (written' # written /\ written' # NoFile) =>
             /\ pc = "synth"
             /\ cmd = " "
             /\ written' = filename(current_sentence_index)
             /\ audioFiles' = audioFiles \cup {written'}
       /\ audioFiles' # audioFiles => written' # written]_vars

\* a record has added the file of its index to the files of other indices
C20_Witness ==
    /\ pc = "play"
    /\ audioBefore # {}
    /\ written \notin audioBefore
    /\ audioFiles = audioBefore \cup {written}
    /\ written = filename(current_sentence_index)


\* C21: a run that ends by quit or by Ctrl+C ends with exit status 0,
\* wherever the interrupt arrives.
C21_QuitAndInterruptExitZero ==
    (pc = "exited" /\ cmd \in {"q", "int"}) => exitStatus = "0"


\* C22: one record key press makes at most one synthesis request and at most
\* one call of get_credentials; without credentials one re-acquisition is
\* tried and, when it fails, no request is made; a 401 response is followed
\* by exactly one token refresh and no second request, a 403 response by no
\* refresh and no second request.
C22_OneRequestPerRecord ==
    /\ calls.post <= 1
    /\ calls.get_credentials <= 1
    /\ calls.refresh <= 1
    /\ synthResult = "no_credentials" =>
          calls = [get_credentials |-> 1, post |-> 0, refresh |-> 0]
    /\ synthResult = "http401" => (calls.post = 1 /\ calls.refresh = 1)
    /\ synthResult = "http403" =>
          (calls.post = 1 /\ calls.refresh = 0 /\ pc \in {"top", "exited"})
    /\ (synthResult \notin {"none", "no_credentials", "http401"}) =>
          (calls.post = 1 /\ calls.refresh = 0)

\* a 401 response was answered by one refresh and the command has ended
C22_Witness ==
    /\ pc = "top"
    /\ cmd = " "
    /\ synthResult = "http401"
    /\ calls = [get_credentials |-> 0, post |-> 1, refresh |-> 1]


\* the keys the if/elif chain of the loop has a branch for
BoundKeys == {"l", "j", " ", "r", "q"}

\* a key that the claim calls a no-op: next at the last index, prev at index
\* 0, or a key that is none of the five bound keys
NoOpKey(k, index, list) ==
    \/ k = "l" /\ index = Len(list) - 1
    \/ k = "j" /\ index = 0
    \/ k \notin BoundKeys \cup {"int", "none"}

\* C23: a next at the last index, a prev at index 0 and any key other than
\* the five bound keys leave cursor, sentence list, persisted position,
\* audio files and the player-error flag as they are, and the loop goes on
\* to display the same sentence.
C23_NoOpKeys ==
    [][(pc = "key" /\ sentences # <<>>
        /\ NoOpKey(cmd', current_sentence_index, sentences)) =>
          /\ pc' = "top"
          /\ UNCHANGED <<current_sentence_index, sentences, settingsFile,
                         audioFiles, ffmpeg_error_printed>>]_vars


InLoop == pc \in {"top", "key", "synth", "play", "error"}

\* C25: in the interactive loop the cursor never exceeds the persisted
\* position: the startup and a next that moves make the two equal, prev and
\* reload never raise the cursor.
C25_CursorAtMostPersisted ==
    /\ InLoop => current_sentence_index <= Position
    /\ pc = "sleep" => current_sentence_index = Position
    /\ (cmd = "l" /\ current_sentence_index # old_index) =>
          current_sentence_index = Position
    /\ (cmd \in {"j", "r"} /\ InLoop) => current_sentence_index <= old_index

\* after a prev, a next has moved the cursor and lowered the persisted
\* position to it
C25_Witness ==
    /\ pc = "top"
    /\ cmd = "l"
    /\ persistedBefore >= 0
    /\ current_sentence_index = old_index + 1
    /\ Position = current_sentence_index
    /\ Position < persistedBefore


\* the outcomes of read_sentences that return no list
ReadFailures == {"missing", "unreadable", "empty"}

\* C26: the sentence list of the interactive loop is never empty: a
\* read_sentences that finds no sentence ends the process, at startup and at
\* a reload, so the empty-list branch of the loop is never entered.
C26_SentencesNeverEmpty ==
    /\ (InLoop \/ pc = "sleep") => sentences # <<>>
    /\ readStatus \in ReadFailures => (pc = "exited" /\ exitStatus = "0")

\* a reload found a data.txt without sentences and the process has ended
C26_Witness ==
    /\ pc = "exited"
    /\ cmd = "r"
    /\ readStatus = "empty"
    /\ sentences # <<>>


\* the startup has read the sentences and no key was read since
StartupDone ==
    /\ fileAtStart # Forgotten
    /\ sentences # <<>>
    /\ pc = "sleep" \/ (pc = "exited" /\ cmd = "int")

\* C27: when the persisted position is >= the number of sentences, the
\* startup writes count - 1 as the persisted position before any key is
\* read, and an interrupt that follows leaves it written; when the persisted
\* position is below the count, the startup leaves the document as
\* load_settings left it.
C27_StartupClampIsWritten ==
    StartupDone =>
        IF PersistedPosition(fileAtStart) >= Len(sentences)
        THEN /\ Position = Len(sentences) - 1
             /\ current_sentence_index = Len(sentences) - 1
             /\ Position < PersistedPosition(fileAtStart)
        ELSE /\ settingsFile = load_settings(fileAtStart).file
             /\ Position = PersistedPosition(fileAtStart)
             /\ current_sentence_index = Position

\* the startup has clamped a position beyond the text and an interrupt has
\* ended the run: the earlier position is gone
C27_Witness ==
    /\ pc = "exited"
    /\ cmd = "int"
    /\ fileAtStart.state = "ok"
    /\ sentences # <<>>
    /\ PersistedPosition(fileAtStart) > Len(sentences)
    /\ Position = Len(sentences) - 1

====
